---- MODULE Spec2Model ----
(***************************************************************************)
(* Link augmentation of commitizen changelogs (CustomCommitsCz).           *)
(*                                                                         *)
(* Text is modelled character by character: a Python str is a sequence of  *)
(* one-character strings, a document or a commit body keeps its "\n"       *)
(* characters.  The regular expressions the hooks build from their inputs  *)
(* are compiled and matched by the operators below, restricted to the      *)
(* constructs the modelled alphabets can produce (literals, '.', groups,   *)
(* character classes).                                                     *)
(***************************************************************************)
EXTENDS Integers, Sequences, FiniteSets, TLC

VARIABLES
    pc,                    \* "new" | "ready" | "finalized" | "raised"
    variant,               \* which package's CustomCommitsCz is instantiated
    settings,              \* config.settings
    github_repo,           \* self.github_repo
    breaking_change_dicts, \* self.breaking_change_dicts
    parsed_message,        \* the mapping the host passed to the last builder call
    returned,              \* what the last call returned (a reference or a value)
    last_op,               \* the last operation that ran
    arg_message,           \* parsed_message["message"] on entry of the last builder call
    arg_commit,            \* the commit of the last builder call
    host_changelog,        \* the document the host assembled (the first changelog_hook argument)
    full_changelog,        \* the argument of the last changelog_hook call
    changelog_out          \* the document the last changelog_hook call returned

vars == <<pc, variant, settings, github_repo, breaking_change_dicts, parsed_message,
          returned, last_op, arg_message, arg_commit, host_changelog, full_changelog,
          changelog_out>>

-----------------------------------------------------------------------------
(* Python values *)

None == [isNone |-> TRUE]

Some(v) == [isNone |-> FALSE, value |-> v]

\* str(x) as an f-string formats it
Str(x) == IF x.isNone THEN <<"N", "o", "n", "e">> ELSE x.value

Min(a, b) == IF a < b THEN a ELSE b

\* the least and the greatest element of a non-empty set of integers
First(S) == CHOOSE x \in S : \A y \in S : x <= y

Max(S) == CHOOSE x \in S : \A y \in S : y <= x

\* s[:n]
Take(s, n) == SubSeq(s, 1, Min(n, Len(s)))

\* s[n:]
Drop(s, n) == SubSeq(s, n + 1, Len(s))

\* s[i-1:].startswith(p), i counted from 1
StartsWithAt(s, i, p) == i + Len(p) - 1 <= Len(s) /\ SubSeq(s, i, i + Len(p) - 1) = p

EndsWith(s, p) == Len(p) <= Len(s) /\ SubSeq(s, Len(s) - Len(p) + 1, Len(s)) = p

\* p occurs in s
Contains(s, p) == \E i \in 1..(Len(s) + 1) : StartsWithAt(s, i, p)

SeqsUpTo(S, n) == UNION {[1..k -> S] : k \in 0..n}

Digits == {"0", "1", "2", "3", "4", "5", "6", "7", "8", "9"}

-----------------------------------------------------------------------------
(* GitHubRepo *)

GitHubRepo(owner, name) == [owner |-> owner, name |-> name]

url(repo) ==
    <<"h", "t", "t", "p", "s", ":", "/", "/", "g", "i", "t", "h", "u", "b", ".", "c", "o", "m", "/">>
        \o Str(repo.owner) \o <<"/">> \o Str(repo.name)

get_commit_url(repo, commit_id) ==
    url(repo) \o <<"/", "c", "o", "m", "m", "i", "t", "/">> \o commit_id

get_diff_url(repo, tag1, tag2) ==
    url(repo) \o <<"/", "c", "o", "m", "p", "a", "r", "e", "/">> \o tag1 \o <<".", ".", ".">> \o tag2

get_issue_url(repo, issue_id_without_sharp) ==
    url(repo) \o <<"/", "i", "s", "s", "u", "e", "s", "/">> \o issue_id_without_sharp

-----------------------------------------------------------------------------
(* changelog_message_builder_hook *)

ShortIdLen == 7

\* the end of the digit run that starts at s[i]
DigitRunEnd(s, i) ==
    CHOOSE e \in i..Len(s) :
        /\ \A k \in i..e : s[k] \in Digits
        /\ (e = Len(s) \/ s[e + 1] \notin Digits)

\* r"#\d+" matches at s[j]
IssueIdAt(s, j) == s[j] = "#" /\ j + 1 <= Len(s) /\ s[j + 1] \in Digits

\* re.compile(r"(#\d+)").findall(message), scanning from s[i]
RECURSIVE FindIssueIds(_, _)
FindIssueIds(s, i) ==
    LET starts == {j \in i..Len(s) : IssueIdAt(s, j)}
    IN  IF starts = {} THEN <<>>
        ELSE LET j == First(starts)
                 e == DigitRunEnd(s, j + 1)
             IN  <<SubSeq(s, j, e)>> \o FindIssueIds(s, e + 1)

\* re.compile(pat).sub(repl, s) for a pattern of literal characters ('#' and
\* digits): every non-overlapping occurrence, leftmost first, scanning from s[i]
RECURSIVE SubLiteral(_, _, _, _)
SubLiteral(pat, repl, s, i) ==
    LET starts == {j \in i..Len(s) : StartsWithAt(s, j, pat)}
    IN  IF starts = {} THEN SubSeq(s, i, Len(s))
        ELSE LET j == First(starts)
             IN  SubSeq(s, i, j - 1) \o repl \o SubLiteral(pat, repl, s, j + Len(pat))

\* f"[{issue_id}]({repo_issue_url})"
IssueLink(repo, issue_id) ==
    <<"[">> \o issue_id \o <<"]", "(">> \o get_issue_url(repo, Drop(issue_id, 1)) \o <<")">>

\* the loop over issue_ids: each id is substituted in the message as it stands
RECURSIVE SubIssueIds(_, _, _)
SubIssueIds(repo, issue_ids, message) ==
    IF issue_ids = <<>> THEN message
    ELSE SubIssueIds(repo, Tail(issue_ids),
                     SubLiteral(Head(issue_ids), IssueLink(repo, Head(issue_ids)), message, 1))

AddIssueLinks(repo, message) == SubIssueIds(repo, FindIssueIds(message, 1), message)

\* a slip: the link text is the whole revision, not its short form
CommitLinkLongId(repo, long_commit_id) ==
    <<"(", "[">> \o long_commit_id \o <<"]", "(">>
        \o get_commit_url(repo, long_commit_id) \o <<")", ")">>

\* ([<short>](<commit url>))
CommitLink(repo, long_commit_id) ==
    <<"(", "[">> \o Take(long_commit_id, ShortIdLen) \o <<"]", "(">>
        \o get_commit_url(repo, long_commit_id) \o <<")", ")">>

\* f"{message} ([{short_commit_id}]({repo_commit_url}))"
AddCommitLink(repo, message, long_commit_id) ==
    message \o <<" ">> \o CommitLink(repo, long_commit_id)

\* breaking_change_word
breaking_change_word ==
    <<"B", "R", "E", "A", "K", "I", "N", "G", " ", "C", "H", "A", "N", "G", "E", ":", " ">>

\* the index of the last character of the line that holds s[i] (the character
\* before the next "\n", or the end of s)
LineEnd(s, i) ==
    LET newlines == {j \in i..Len(s) : s[j] = "\n"}
    IN  IF newlines = {} THEN Len(s) ELSE First(newlines) - 1

\* re.findall(rf"{breaking_change_word}.*", body, re.MULTILINE), scanning from
\* body[i]: the word wherever it occurs, with the rest of its line
RECURSIVE FindBreakingChanges(_, _)
FindBreakingChanges(body, i) ==
    LET starts == {j \in i..Len(body) : StartsWithAt(body, j, breaking_change_word)}
    IN  IF starts = {} THEN <<>>
        ELSE LET j == First(starts)
                 e == LineEnd(body, j)
             IN  <<SubSeq(body, j, e)>> \o FindBreakingChanges(body, e + 1)

\* the dict built for each match
RECURSIVE BreakingChangeDicts(_, _)
BreakingChangeDicts(breaking_change_messages, rev) ==
    IF breaking_change_messages = <<>> THEN <<>>
    ELSE <<[breaking_change_message |-> Drop(Head(breaking_change_messages),
                                             Len(breaking_change_word)),
            commit_id |-> rev]>>
         \o BreakingChangeDicts(Tail(breaking_change_messages), rev)

\* a slip: the records of the commit are put in front of the collection
PrependBreakingChanges(dicts, commit) ==
    BreakingChangeDicts(FindBreakingChanges(commit.body, 1), commit.rev) \o dicts

\* self.breaking_change_dicts.append(...) for each match of the body
AppendBreakingChanges(dicts, commit) ==
    dicts \o BreakingChangeDicts(FindBreakingChanges(commit.body, 1), commit.rev)

-----------------------------------------------------------------------------
(* Text as lines *)

\* s.split("\n")
RECURSIVE SplitLines(_)
SplitLines(s) ==
    LET e == LineEnd(s, 1)
    IN  IF e = Len(s) THEN <<s>>
        ELSE <<SubSeq(s, 1, e)>> \o SplitLines(Drop(s, e + 1))

\* "\n".join(lines)
RECURSIVE JoinLines(_)
JoinLines(lines) ==
    IF Len(lines) = 1 THEN Head(lines)
    ELSE Head(lines) \o <<"\n">> \o JoinLines(Tail(lines))

-----------------------------------------------------------------------------
(* Regular expressions built from a tag or a breaking-change text *)

\* pattern characters whose meaning is not modelled; the alphabets of the
\* specifications below never produce them in a pattern (PatternsModelled)
UnmodelledChars == {"*", "+", "?", "{", "}", "|", "\\", "^", "$", "-"}

\* the character classes of p from p[i] on, left to right: a "[" outside a
\* class opens one, which the next "]" closes (a "]" right after the "[" is a
\* member); end = 0 for a class that is never closed
RECURSIVE ClassSpans(_, _)
ClassSpans(p, i) ==
    LET opens == {j \in i..Len(p) : p[j] = "["}
    IN  IF opens = {} THEN <<>>
        ELSE LET start == First(opens)
                 ends  == {j \in (start + 2)..Len(p) : p[j] = "]"}
             IN  IF ends = {} THEN <<[start |-> start, end |-> 0]>>
                 ELSE <<[start |-> start, end |-> First(ends)]>>
                          \o ClassSpans(p, First(ends) + 1)

\* sre_parse on p, whose character classes are spans: [status, atoms].  status is "error" where re.compile raises
\* re.error (a group or a class left open, a ")" that closes nothing).  Every
\* atom matches exactly one character; in2 marks the atoms inside the first
\* group of the pattern when first_group is set.
ParseSpans(p, spans, first_group) ==
    LET unterminated == \E n \in 1..Len(spans) : spans[n].end = 0
        InClass(k) == \E n \in 1..Len(spans) : spans[n].start < k /\ k <= spans[n].end
        ClassAt(k) == \E n \in 1..Len(spans) : spans[n].start = k
        Plain(k) == ~InClass(k) /\ ~ClassAt(k)
        DepthAfter(k) == Cardinality({j \in 1..k : Plain(j) /\ p[j] = "("})
                             - Cardinality({j \in 1..k : Plain(j) /\ p[j] = ")"})
        unbalanced == \/ \E k \in 1..Len(p) : DepthAfter(k) < 0
                      \/ DepthAfter(Len(p)) # 0
        closing == {k \in 1..Len(p) : Plain(k) /\ p[k] = ")" /\ DepthAfter(k) = 0}
        group_end == IF closing = {} THEN Len(p) + 1 ELSE First(closing)
        positions == {k \in 1..Len(p) : \/ ClassAt(k)
                                        \/ Plain(k) /\ p[k] \notin {"(", ")"}}
        Nth(n) == CHOOSE k \in positions : Cardinality({x \in positions : x <= k}) = n
        Members(k) == LET span == CHOOSE n \in 1..Len(spans) : spans[n].start = k
                      IN  {p[j] : j \in (k + 1)..(spans[span].end - 1)}
        AtomAt(k) == [kind  |-> IF ClassAt(k) THEN "in" ELSE IF p[k] = "." THEN "any" ELSE "literal",
                      chars |-> IF ClassAt(k) THEN Members(k) ELSE {p[k]},
                      in2   |-> first_group /\ k < group_end]
    IN  IF \E k \in 1..Len(p) : p[k] \in UnmodelledChars
        THEN [status |-> "unmodelled", atoms |-> <<>>]
        ELSE IF unterminated \/ unbalanced THEN [status |-> "error", atoms |-> <<>>]
        ELSE [status |-> "ok", atoms |-> [n \in 1..Cardinality(positions) |-> AtomAt(Nth(n))]]

\* re.compile(p)
Parse(p, first_group) == ParseSpans(p, ClassSpans(p, 1), first_group)

AtomMatches(atom, c) ==
    IF atom.kind = "any" THEN c # "\n" ELSE c \in atom.chars

\* the atoms match s[i..i+Len(atoms)-1]
MatchAt(atoms, s, i) ==
    /\ i >= 1
    /\ i + Len(atoms) - 1 <= Len(s)
    /\ \A k \in 1..Len(atoms) : AtomMatches(atoms[k], s[i + k - 1])

-----------------------------------------------------------------------------
(* changelog_hook, the tag headings *)

\* the number of "#" that ^#{1,2} followed by a space matches at the start of
\* the line; 0 if it does not match
HeadingMarkerLen(line) ==
    IF Len(line) >= 2 /\ line[1] = "#" /\ line[2] = " " THEN 1
    ELSE IF Len(line) >= 3 /\ line[1] = "#" /\ line[2] = "#" /\ line[3] = " " THEN 2
    ELSE 0

MinTagLen == 4

\* where r" \(.*\)" can match in the line, leaving at least "v" and three
\* characters for the tag that starts at line[start]
TagEnds(line, start) ==
    {j \in (start + MinTagLen)..(Len(line) - 2) :
        /\ line[j] = " "
        /\ line[j + 1] = "("
        /\ \E k \in (j + 2)..Len(line) : line[k] = ")"}

\* the match of tag_pattern r"^#{1,2} (v\d?.\d?.\d?.*) \(.*\)" in one line:
\* <<tag>>, or <<>>.  The greedy .* of the tag runs to the last " (" that a
\* ")" follows.
TagOfLine(line) ==
    LET h == HeadingMarkerLen(line)
        start == h + 2
    IN  IF h = 0 \/ start > Len(line) THEN <<>>
        ELSE IF line[start] # "v" \/ TagEnds(line, start) = {} THEN <<>>
        ELSE <<SubSeq(line, start, Max(TagEnds(line, start)) - 1)>>

\* re.findall(tag_pattern, full_changelog, re.MULTILINE)
RECURSIVE TagsOfLines(_)
TagsOfLines(lines) ==
    IF lines = <<>> THEN <<>> ELSE TagOfLine(Head(lines)) \o TagsOfLines(Tail(lines))

FindTags(changelog) == TagsOfLines(SplitLines(changelog))

\* rf"(^#{{1,2}}) ({tag})" compiled: the atoms after the heading marker and the
\* space, those of group 2 marked
CompileTag(tag) == Parse(<<"(">> \o tag \o <<")">>, TRUE)

\* the text of group 2 of a match that starts at line[i]
Group2(atoms, line, i) ==
    SubSeq(line, i, i + Cardinality({k \in 1..Len(atoms) : atoms[k].in2}) - 1)

\* re.sub(search_pattern_of_newer_tag, replacement_str_of_newer_tag, ...) on one
\* line; diff_url is None for the replacement r"\1 \2"
SubTagInLine(atoms, diff_url, line) ==
    LET h == HeadingMarkerLen(line)
    IN  IF h = 0 \/ ~MatchAt(atoms, line, h + 2) THEN line
        ELSE LET tagText == Group2(atoms, line, h + 2)
                 rest    == Drop(line, h + 1 + Len(atoms))
             IN  IF diff_url.isNone
                 THEN SubSeq(line, 1, h + 1) \o tagText \o rest
                 ELSE SubSeq(line, 1, h + 1) \o <<"[">> \o tagText \o <<"]", "(">>
                          \o diff_url.value \o <<")">> \o rest

\* the loop over enumerate(tags) from tag_index on, on the lines as they stand;
\* a pattern that does not compile raises re.error
RECURSIVE AddDiffLinks(_, _, _, _)
AddDiffLinks(repo, tags, tag_index, lines) ==
    IF tag_index > Len(tags) THEN [status |-> "ok", lines |-> lines]
    ELSE LET compiled == CompileTag(tags[tag_index])
             diff_url == IF tag_index + 1 <= Len(tags)
                         THEN Some(get_diff_url(repo, tags[tag_index + 1], tags[tag_index]))
                         ELSE None
         IN  IF compiled.status # "ok"
             THEN [status |-> compiled.status, lines |-> lines]
             ELSE AddDiffLinks(repo, tags, tag_index + 1,
                      [n \in 1..Len(lines) |-> SubTagInLine(compiled.atoms, diff_url, lines[n])])

-----------------------------------------------------------------------------
(* changelog_hook, the breaking changes *)

\* rf"{breaking_change_message}$" compiled
CompileText(breaking_change_message) == Parse(breaking_change_message, FALSE)

\* f"{breaking_change_message} ([{short_commit_id}]({repo_commit_url}))"
MessageWithLink(repo, dict) ==
    AddCommitLink(repo, dict.breaking_change_message, dict.commit_id)

\* re.sub(rf"{breaking_change_message}$", breaking_change_message_with_link, ...)
\* on one line: the atoms match the end of the line
SubTextInLine(atoms, message_with_link, line) ==
    IF MatchAt(atoms, line, Len(line) - Len(atoms) + 1)
    THEN SubSeq(line, 1, Len(line) - Len(atoms)) \o message_with_link
    ELSE line

\* the loop over self.breaking_change_dicts from index i on
RECURSIVE AddBreakingChangeLinks(_, _, _, _)
AddBreakingChangeLinks(repo, dicts, i, lines) ==
    IF i > Len(dicts) THEN [status |-> "ok", lines |-> lines]
    ELSE LET compiled == CompileText(dicts[i].breaking_change_message)
         IN  IF compiled.status # "ok"
             THEN [status |-> compiled.status, lines |-> lines]
             ELSE AddBreakingChangeLinks(repo, dicts, i + 1,
                      [n \in 1..Len(lines) |->
                          SubTextInLine(compiled.atoms, MessageWithLink(repo, dicts[i]), lines[n])])

\* changelog_hook of commitizen_cz_custom_commits: [status, text]
ChangelogHookResult(repo, dicts, changelog) ==
    LET a == AddDiffLinks(repo, FindTags(changelog), 1, SplitLines(changelog))
        b == IF a.status = "ok" THEN AddBreakingChangeLinks(repo, dicts, 1, a.lines) ELSE a
    IN  [status |-> b.status, text |-> JoinLines(b.lines)]

\* changelog_hook of cz_custom_commits: the tag headings only
LegacyChangelogHookResult(repo, changelog) ==
    LET a == AddDiffLinks(repo, FindTags(changelog), 1, SplitLines(changelog))
    IN  [status |-> a.status, text |-> JoinLines(a.lines)]

-----------------------------------------------------------------------------
(* The instance and its operations *)

Main == "commitizen_cz_custom_commits"

Legacy == "cz_custom_commits"

GitCommit(rev, body) == [rev |-> rev, body |-> body]

\* before CustomCommitsCz(config) is called
Start(variants, configs) ==
    /\ pc = "new"
    /\ variant \in variants
    /\ settings \in configs
    /\ github_repo = None
    /\ breaking_change_dicts = None
    /\ parsed_message = None
    /\ returned = "nothing"
    /\ last_op = "none"
    /\ arg_message = <<>>
    /\ arg_commit = GitCommit(<<>>, <<>>)
    /\ host_changelog = <<>>
    /\ full_changelog = <<>>
    /\ changelog_out = <<>>

\* the name of the setting __init__ of commitizen_cz_custom_commits raises for,
\* or "" if it raises for none
MissingSetting(config) ==
    IF config.github_repo_owner.isNone THEN "github_repo_owner"
    ELSE IF config.github_repo_name.isNone THEN "github_repo_name"
    ELSE ""

\* __init__ of cz_custom_commits checks nothing
LegacyMissingSetting(config) == ""

\* CustomCommitsCz.__init__
Construct ==
    /\ pc = "new"
    /\ last_op' = "__init__"
    /\ LET missing == IF variant = Main THEN MissingSetting(settings)
                      ELSE LegacyMissingSetting(settings)
       IN  IF missing # ""
           THEN /\ pc' = "raised"
                /\ returned' = "Exception"
                /\ UNCHANGED <<github_repo, breaking_change_dicts>>
           ELSE /\ pc' = "ready"
                /\ returned' = "instance"
                /\ github_repo' = GitHubRepo(settings.github_repo_owner,
                                             settings.github_repo_name)
                /\ breaking_change_dicts' =
                       IF variant = Main THEN <<>> ELSE breaking_change_dicts
    /\ UNCHANGED <<variant, settings, parsed_message, arg_message, arg_commit,
                   host_changelog, full_changelog, changelog_out>>

\* the message changelog_message_builder_hook writes back
BuiltMessage(message, commit) ==
    IF variant = Main
    THEN AddCommitLink(github_repo, AddIssueLinks(github_repo, message), commit.rev)
    ELSE AddCommitLink(github_repo, message, commit.rev)

\* what changelog_message_builder_hook returns: the mapping it was passed
BuilderReturn == "parsed_message"

\* changelog_message_builder_hook(parsed_message, commit), op names the caller's use
BuilderCall(message, commit, op) ==
    /\ pc = "ready"
    /\ arg_message' = message
    /\ arg_commit' = commit
    /\ parsed_message' = [message |-> BuiltMessage(message, commit)]
    /\ breaking_change_dicts' =
           IF variant = Main THEN AppendBreakingChanges(breaking_change_dicts, commit)
           ELSE breaking_change_dicts
    /\ returned' = BuilderReturn
    /\ last_op' = op
    /\ UNCHANGED <<pc, variant, settings, github_repo, host_changelog, full_changelog,
                   changelog_out>>

\* the host passes a freshly parsed commit
changelog_message_builder_hook(message, commit) ==
    BuilderCall(message, commit, "changelog_message_builder_hook")

\* the hook applied once more to the mapping it returned, for the same commit
changelog_message_builder_hook_again ==
    /\ last_op = "changelog_message_builder_hook"
    /\ BuilderCall(parsed_message.message, arg_commit, "changelog_message_builder_hook_again")

\* changelog_hook(full_changelog, partial_changelog), op names the caller's use
ChangelogCall(changelog, op) ==
    LET result == IF variant = Main
                  THEN ChangelogHookResult(github_repo, breaking_change_dicts, changelog)
                  ELSE LegacyChangelogHookResult(github_repo, changelog)
    IN  /\ full_changelog' = changelog
        /\ last_op' = op
        /\ IF result.status = "ok"
           THEN /\ pc' = "finalized"
                /\ returned' = "full_changelog"
                /\ changelog_out' = result.text
           ELSE /\ pc' = "raised"
                /\ returned' = IF result.status = "error" THEN "re.error" ELSE result.status
                /\ UNCHANGED changelog_out
        /\ UNCHANGED <<variant, settings, github_repo, breaking_change_dicts,
                       parsed_message, arg_message, arg_commit>>

\* the host passes the document it assembled
changelog_hook(changelog) ==
    /\ pc = "ready"
    /\ host_changelog' = changelog
    /\ ChangelogCall(changelog, "changelog_hook")

\* the hook applied once more, to the document it returned
changelog_hook_again ==
    /\ pc = "finalized"
    /\ last_op = "changelog_hook"
    /\ UNCHANGED host_changelog
    /\ ChangelogCall(changelog_out, "changelog_hook_again")

-----------------------------------------------------------------------------
(* Inputs shared by the specifications *)

Owner == <<"o">>

Name == <<"n">>

FullConfig == [github_repo_owner |-> Some(Owner), github_repo_name |-> Some(Name)]

\* a revision shorter than the short form, and one longer
ShortRev == <<"a", "b", "c">>

LongRev == <<"a", "b", "c", "d", "e", "f", "1", "2", "3">>

\* https://github.com/o/n, written out
BaseUrl ==
    <<"h", "t", "t", "p", "s", ":", "/", "/", "g", "i", "t", "h", "u", "b", ".", "c", "o", "m",
      "/", "o", "/", "n">>

\* ([<first 7 characters of rev>](https://github.com/o/n/commit/<rev>)), written out
ExpectedCommitLink(rev) ==
    <<"(", "[">> \o (IF Len(rev) <= 7 THEN rev ELSE SubSeq(rev, 1, 7)) \o <<"]", "(">>
        \o BaseUrl \o <<"/", "c", "o", "m", "m", "i", "t", "/">> \o rev \o <<")", ")">>

\* [#<digits>](https://github.com/o/n/issues/<digits>), written out
ExpectedIssueLink(digits) ==
    <<"[", "#">> \o digits \o <<"]", "(">>
        \o BaseUrl \o <<"/", "i", "s", "s", "u", "e", "s", "/">> \o digits \o <<")">>

-----------------------------------------------------------------------------
(* SpecMsg: the message rewriting of changelog_message_builder_hook *)

MaxMsgLen == 5

MsgAlphabet == {"#", "1", "2", "x"}

Messages == SeqsUpTo(MsgAlphabet, MaxMsgLen)

MsgCommits == {GitCommit(ShortRev, <<>>), GitCommit(LongRev, <<>>)}

InitMsg == Start({Main}, {FullConfig})

NextMsg ==
    \/ Construct
    \/ /\ last_op = "__init__"   \* one commit: the rewriting keeps no state
       /\ \E message \in Messages, commit \in MsgCommits :
              changelog_message_builder_hook(message, commit)
    \/ changelog_message_builder_hook_again

SpecMsg == InitMsg /\ [][NextMsg]_vars

\* the message with every issue reference from s[i] on replaced, one by one, by
\* the link of its own digit run
RECURSIVE LinkedPerOccurrence(_, _)
LinkedPerOccurrence(s, i) ==
    LET starts == {j \in i..Len(s) : IssueIdAt(s, j)}
    IN  IF starts = {} THEN SubSeq(s, i, Len(s))
        ELSE LET j == First(starts)
                 e == DigitRunEnd(s, j + 1)
             IN  SubSeq(s, i, j - 1) \o ExpectedIssueLink(SubSeq(s, j + 1, e))
                     \o LinkedPerOccurrence(s, e + 1)

\* C1: a message with k issue references comes back with exactly k issue
\* links, one per occurrence, each [#<digits>](<base>/issues/<digits>) for the
\* full digit run of that occurrence, none nested in another, duplicates and
\* prefixes included.
C1_IssueLinkPerOccurrence ==
    last_op = "changelog_message_builder_hook" =>
        parsed_message.message =
            LinkedPerOccurrence(arg_message, 1) \o <<" ">> \o ExpectedCommitLink(arg_commit.rev)

\* C2: the returned message is the issue-linked message, one space and
\* ([<first 7 characters of rev>](<base>/commit/<rev>)); it is written to the
\* mapping that was passed in, and that mapping is returned.
C2_CommitLinkAppended ==
    last_op \in {"changelog_message_builder_hook", "changelog_message_builder_hook_again"} =>
        /\ returned = "parsed_message"
        /\ parsed_message.message =
               AddIssueLinks(github_repo, arg_message) \o <<" ">>
                   \o ExpectedCommitLink(arg_commit.rev)
        /\ EndsWith(parsed_message.message, ExpectedCommitLink(arg_commit.rev))

C2_Witness ==
    /\ last_op = "changelog_message_builder_hook"
    /\ Len(arg_commit.rev) < ShortIdLen
    /\ FindIssueIds(arg_message, 1) # <<>>
    /\ returned = "parsed_message"

\* C6: applied to a message an earlier application already link-augmented, the
\* hook leaves the existing issue links as they are and wraps none of them in
\* a second link.
C6_IssueLinkingIdempotent ==
    last_op = "changelog_message_builder_hook_again" =>
        /\ parsed_message.message =
               arg_message \o <<" ">> \o ExpectedCommitLink(arg_commit.rev)
        /\ ~Contains(parsed_message.message, <<"[", "[", "#">>)

-----------------------------------------------------------------------------
(* SpecBody: the breaking changes changelog_message_builder_hook collects *)

MaxBodyLines == 2

MaxRecords == 2

BodyLines ==
    { breaking_change_word \o <<"a">>,
      <<"x", " ">> \o breaking_change_word \o <<"b">>,
      <<"f", "o", "o">> }

Bodies == {<<>>} \cup {JoinLines(ls) : ls \in SeqsUpTo(BodyLines, MaxBodyLines) \ {<<>>}}

BodyCommits == {GitCommit(rev, body) : rev \in {ShortRev, LongRev}, body \in Bodies}

BodyChangelogs == { <<"-", " ", "a">>, <<"-", " ", "a", "\n", "-", " ", "b">> }

InitBody == Start({Main}, {FullConfig})

NextBody ==
    \/ Construct
    \/ /\ pc = "ready"
       /\ \E commit \in BodyCommits :
              /\ Len(AppendBreakingChanges(breaking_change_dicts, commit)) <= MaxRecords
              /\ changelog_message_builder_hook(<<"m">>, commit)
    \/ \E changelog \in BodyChangelogs : changelog_hook(changelog)

SpecBody == InitBody /\ [][NextBody]_vars

\* one record for each line that begins with the marker, in order
RECURSIVE MarkerLineDicts(_, _)
MarkerLineDicts(lines, rev) ==
    IF lines = <<>> THEN <<>>
    ELSE (IF StartsWithAt(Head(lines), 1, breaking_change_word)
          THEN <<[breaking_change_message |-> Drop(Head(lines), Len(breaking_change_word)),
                  commit_id |-> rev]>>
          ELSE <<>>)
         \o MarkerLineDicts(Tail(lines), rev)

\* a commit call appends the records of the lines that begin with the marker
MarkerLineStep ==
    (pc = "ready" /\ last_op' = "changelog_message_builder_hook") =>
        breaking_change_dicts' =
            breaking_change_dicts
                \o MarkerLineDicts(SplitLines(arg_commit'.body), arg_commit'.rev)

\* C3: one call appends exactly one record for each body line that begins with
\* "BREAKING CHANGE: ", in body order, holding the rest of the line and
\* commit.rev; a line that holds the marker only after other text adds none.
C3_RecordPerMarkerLine == [][MarkerLineStep]_vars

IsPrefix(s, t) == Len(s) <= Len(t) /\ SubSeq(t, 1, Len(s)) = s

\* a step of a constructed instance keeps the collection as a prefix, and a
\* changelog_hook step keeps it as it is
AppendOnlyStep ==
    pc \in {"ready", "finalized"} =>
        /\ IsPrefix(breaking_change_dicts, breaking_change_dicts')
        /\ (last_op' \in {"changelog_hook", "changelog_hook_again"} =>
                breaking_change_dicts' = breaking_change_dicts)

\* C10: the breaking-change collection is append-only: each commit call leaves
\* the previous collection as a prefix of the new one, and changelog_hook
\* leaves the collection unchanged.
C10_AppendOnly == [][AppendOnlyStep]_vars

C10_Witness ==
    /\ pc = "finalized"
    /\ Len(breaking_change_dicts) >= 2
    /\ breaking_change_dicts[1].commit_id # breaking_change_dicts[2].commit_id

-----------------------------------------------------------------------------
(* SpecDoc: changelog_hook on the assembled document *)

MaxDocLines == 3

MaxDocRecords == 2

\* breaking-change texts: plain ones (one a suffix of the other), the empty
\* text, and texts with the regex metacharacters '.' and '('
DocTexts == { <<"b">>, <<"a", "b">>, <<>>, <<".", "b">>, <<"a", "(">> }

DocCommits ==
    {GitCommit(rev, breaking_change_word \o text) : rev \in {ShortRev, LongRev}, text \in DocTexts}

\* tag headings (one tag a prefix of another, one with a '(') and change lines
DocLines ==
    { <<"#", "#", " ", "v", "1", ".", "0", " ", "(", "d", ")">>,
      <<"#", "#", " ", "v", "1", ".", "0", "b", " ", "(", "d", ")">>,
      <<"#", " ", "v", "0", ".", "9", " ", "(", "d", ")">>,
      <<"#", "#", " ", "v", "1", ".", "(", " ", "(", "d", ")">>,
      <<"-", " ", "b">>,
      <<"-", " ", "a", "b">> }

DocChangelogs == {JoinLines(ls) : ls \in SeqsUpTo(DocLines, MaxDocLines) \ {<<>>}}

InitDoc == Start({Main}, {FullConfig})

NextDoc ==
    \/ Construct
    \/ /\ pc = "ready"
       /\ \E commit \in DocCommits :
              /\ Len(AppendBreakingChanges(breaking_change_dicts, commit)) <= MaxDocRecords
              /\ changelog_message_builder_hook(<<"m">>, commit)
    \/ \E changelog \in DocChangelogs : changelog_hook(changelog)
    \/ changelog_hook_again

SpecDoc == InitDoc /\ [][NextDoc]_vars

\* every pattern the hooks build stays within the modelled regex constructs
PatternsModelled == returned # "unmodelled"

InLines == SplitLines(full_changelog)

OutLines == SplitLines(changelog_out)

\* the last call returned a document, line for line
Returned == pc = "finalized" /\ Len(OutLines) = Len(InLines)

PairwiseDistinct(seq) == \A i, j \in 1..Len(seq) : i # j => seq[i] # seq[j]

\* the position, among the tag headings, of the heading in line n
HeadingIndex(lines, n) == Cardinality({k \in 1..n : TagOfLine(lines[k]) # <<>>})

\* the heading of tags[i] with its tag token linked to the comparison with the
\* next older tag, marker and date kept; the heading of the oldest tag as it is
ExpectedHeading(line, tags, i) ==
    LET h == HeadingMarkerLen(line)
    IN  IF i = Len(tags) THEN line
        ELSE SubSeq(line, 1, h + 1) \o <<"[">> \o tags[i] \o <<"]", "(">> \o BaseUrl
                 \o <<"/", "c", "o", "m", "p", "a", "r", "e", "/">>
                 \o tags[i + 1] \o <<".", ".", ".">> \o tags[i] \o <<")">>
                 \o Drop(line, h + 1 + Len(tags[i]))

TagChars == {"v", "b", ".", "0", "1", "9"}

\* the tag tokens of the document hold no bracket
TagsPlain(changelog) ==
    LET tags == FindTags(changelog)
    IN  \A i \in 1..Len(tags) : \A k \in 1..Len(tags[i]) : tags[i][k] \in TagChars

PlainChars == {"a", "b", "x", " "}

\* the collected texts hold no regex metacharacter
TextsPlain ==
    \A i \in 1..Len(breaking_change_dicts) :
        LET text == breaking_change_dicts[i].breaking_change_message
        IN  \A k \in 1..Len(text) : text[k] \in PlainChars

\* C4: with pairwise distinct tag tokens T_0, ..., T_m in document order, the
\* heading of T_i (i < m) gets its token replaced by
\* [T_i](<base>/compare/T_{i+1}...T_i), the heading of T_m stays unlinked, and
\* marker and date are kept, also when one token is a prefix of another.
\* (Stated for documents whose tokens hold no bracket, with no record collected.)
C4_TagHeadingsLinked ==
    LET tags == FindTags(full_changelog)
    IN  ( /\ last_op = "changelog_hook"
          /\ breaking_change_dicts = <<>>
          /\ PairwiseDistinct(tags)
          /\ TagsPlain(full_changelog) )
        => /\ Returned
           /\ \A n \in 1..Len(InLines) :
                  TagOfLine(InLines[n]) # <<>> =>
                      OutLines[n] = ExpectedHeading(InLines[n], tags, HeadingIndex(InLines, n))

\* the records whose text the line ends with
EndingWith(line) ==
    {i \in 1..Len(breaking_change_dicts) :
        EndsWith(line, breaking_change_dicts[i].breaking_change_message)}

\* C5: every document line that ends with exactly the text of a collected
\* record gets ([<first 7 of commit_id>](<base>/commit/<commit_id>)) of that
\* record appended, also when the text of one record is a suffix of another's.
\* (Stated for change lines, for tag tokens without brackets and for non-empty
\* texts without regex metacharacters; where several texts end the line, the
\* record is one with the longest of them.)
C5_BreakingChangeBacklinks ==
    ( /\ last_op = "changelog_hook"
      /\ TagsPlain(full_changelog)
      /\ TextsPlain
      /\ \A i \in 1..Len(breaking_change_dicts) :
             breaking_change_dicts[i].breaking_change_message # <<>> )
    => /\ Returned
       /\ \A n \in 1..Len(InLines) :
              (HeadingMarkerLen(InLines[n]) = 0 /\ EndingWith(InLines[n]) # {}) =>
                  \E i \in EndingWith(InLines[n]) :
                      /\ \A j \in EndingWith(InLines[n]) :
                             Len(breaking_change_dicts[j].breaking_change_message)
                                 <= Len(breaking_change_dicts[i].breaking_change_message)
                      /\ OutLines[n] = InLines[n] \o <<" ">>
                             \o ExpectedCommitLink(breaking_change_dicts[i].commit_id)

\* C7: on a document with exactly one tag heading changelog_hook returns that
\* heading unchanged, and applied again to its own output, with the same
\* records, it returns that output unchanged.
\* (Stated for a tag token without brackets and texts without regex
\* metacharacters.)
C7_SingleTagIdempotent ==
    (Len(FindTags(host_changelog)) = 1 /\ TagsPlain(host_changelog) /\ TextsPlain) =>
        /\ last_op = "changelog_hook" =>
               /\ Returned
               /\ \A n \in 1..Len(InLines) :
                      TagOfLine(InLines[n]) # <<>> => OutLines[n] = InLines[n]
        /\ last_op = "changelog_hook_again" =>
               /\ Returned
               /\ changelog_out = full_changelog

\* C9: changelog_hook matches tag tokens and breaking-change texts as literal
\* text and never raises: it returns a document, a line is augmented only if
\* it ends with the exact text of a record, and a heading only if it carries
\* the exact tag token.
C9_LiteralMatchNeverRaises ==
    last_op = "changelog_hook" =>
        /\ Returned
        /\ \A n \in 1..Len(InLines) :
               OutLines[n] # InLines[n] =>
                   \/ EndingWith(InLines[n]) # {}
                   \/ /\ TagOfLine(InLines[n]) # <<>>
                      /\ StartsWithAt(OutLines[n], HeadingMarkerLen(InLines[n]) + 2,
                                      <<"[">> \o TagOfLine(InLines[n])[1] \o <<"]", "(">>)

-----------------------------------------------------------------------------
(* SpecCtor: construction, for both packages *)

Configs ==
    [github_repo_owner : {None, Some(Owner)}, github_repo_name : {None, Some(Name)}]

CtorMessages == SeqsUpTo({"#", "1"}, 2)

CtorCommits == {GitCommit(ShortRev, <<>>), GitCommit(LongRev, breaking_change_word \o <<"b">>)}

CtorChangelogs == { <<"-", " ", "b">>,
                    <<"#", "#", " ", "v", "1", ".", "0", " ", "(", "d", ")">> }

InitCtor == Start({Main, Legacy}, Configs)

NextCtor ==
    \/ Construct
    \/ /\ pc = "ready"
       /\ \E message \in CtorMessages, commit \in CtorCommits :
              /\ variant = Main =>
                     Len(AppendBreakingChanges(breaking_change_dicts, commit)) <= MaxRecords
              /\ changelog_message_builder_hook(message, commit)
    \/ \E changelog \in CtorChangelogs : changelog_hook(changelog)

SpecCtor == InitCtor /\ [][NextCtor]_vars

SettingMissing == settings.github_repo_owner.isNone \/ settings.github_repo_name.isNone

\* C8: with github_repo_owner or github_repo_name absent the constructor
\* raises, so no instance exists and no hook runs; with both present
\* construction succeeds with an empty breaking-change collection.
C8_MissingSettingRaises ==
    /\ SettingMissing => pc \in {"new", "raised"} /\ last_op \in {"none", "__init__"}
    /\ (~SettingMissing /\ last_op = "__init__") =>
           pc = "ready" /\ breaking_change_dicts = <<>>

====
